---- MODULE Spec2Model ----
(***************************************************************************)
(* Model of the key-value service layer of MadRaft (src/kvraft/server.rs,  *)
(* src/kvraft/msg.rs): the Kv state machine with its dedup window, the     *)
(* pending-RPC registry, the apply loop and Server::apply (submit).        *)
(*                                                                         *)
(* A String is a sequence of character codes, a u64 identifier is the pair *)
(* of its 32-bit halves [hi, lo] (so `id as u32` is id.lo), and serialized *)
(* data is a flat sequence of integer tokens laid out as bincode does.     *)
(***************************************************************************)
EXTENDS Integers, Sequences, FiniteSets, TLC

VARIABLES
    state,         \* Server.state : the Kv state machine [kv, ids]
    rpcs,          \* Rpcs.rpcs : index -> [id, sender]
    chan,          \* per call of Server::apply: state of its oneshot channel
    pc,            \* per call of Server::apply: position in the function
    creq,          \* per call: the argument id (cmd is moved into the proposal)
    startRes,      \* per call: the answer of rf.start
    cidx,          \* per call: the index it registered
    cres,          \* per call: the value returned
    ref,           \* the state of a replica that applied every committed record
                   \* up to lastIndex one by one
    lastIndex,     \* apply loop: state_index of the last record processed
    loopPc,        \* apply loop: position, or the unwrap() that panicked
    maxRaftState,  \* max_raft_state is Some(_)
    snapReq,       \* last compaction request handed to rf.snapshot
    lastKind,      \* kind of the last record the apply loop processed
    applied,       \* history: index -> what the apply loop applied there
    seen,          \* history: full-width ids of the mutating commands, oldest first
    last,          \* history: the last call of Kv::apply
    napplied,      \* number of Kv::apply calls made by the Kv specifications
    observed,      \* what the calls of Server::term / is_leader returned last
    tasks,         \* lock view: per task, where it is and which locks it holds
    late           \* the calls waiting on a slot they registered after the
                   \* loop had applied their own command at that index

vars == <<state, rpcs, chan, pc, creq, startRes, cidx, cres, ref, lastIndex,
          loopPc, maxRaftState, snapReq, lastKind, applied, seen, last, napplied,
          observed, tasks, late>>

srvVars == <<rpcs, chan, pc, creq, startRes, cidx, cres, ref, lastIndex,
             loopPc, maxRaftState, snapReq, lastKind, applied, observed>>

kvHist == <<seen, last, napplied>>

-----------------------------------------------------------------------------
(* Bounds *)

MaxCallers == 2     \* calls of Server::apply
MaxIndex == 2       \* indices the consensus module commits
MaxApplied == 4     \* Kv::apply calls in the Kv specifications
MaxTerm == 2        \* terms the consensus module reports

(* Program constants *)

WindowSize == 100   \* capacity of Kv.ids

-----------------------------------------------------------------------------
(* Strings and identifiers *)

KeyA == <<97>>
KeyB == <<98>>
Str1 == <<49>>
Str2 == <<50>>
Str9 == <<57>>
EmptyStr == <<>>

Id(h, l) == [hi |-> h, lo |-> l]

AsU32(id) == id.lo

IdX == Id(0, 1)
IdXhi == Id(1, 1)      \* differs from IdX as u64, equal to it as u32
IdY == Id(0, 2)
Filler(n) == Id(0, 100 + n)

(* msg.rs: enum Op *)
Get(k) == [op |-> "Get", key |-> k, value |-> EmptyStr]
Put(k, v) == [op |-> "Put", key |-> k, value |-> v]
AppendOp(k, v) == [op |-> "Append", key |-> k, value |-> v]

Mutating(cmd) == cmd.op \in {"Put", "Append"}

-----------------------------------------------------------------------------
(* The Kv state machine *)

KvDefault == [kv |-> [k \in {} |-> EmptyStr], ids |-> <<>>]

Contains(s, x) == \E i \in 1..Len(s) : s[i] = x

PushBounded_PopBack(s, x) ==
    Append(IF Len(s) >= WindowSize THEN SubSeq(s, 1, Len(s) - 1) ELSE s, x)

PushBounded(s, x) == Append(IF Len(s) >= WindowSize THEN Tail(s) ELSE s, x)

test_dup_id_NoCheck(ids, id) ==
    [unique |-> TRUE, ids |-> PushBounded(ids, AsU32(id))]

test_dup_id_PushIfUnique(ids, id) ==
    [unique |-> ~Contains(ids, AsU32(id)),
     ids |-> IF Contains(ids, AsU32(id)) THEN ids ELSE PushBounded(ids, AsU32(id))]

test_dup_id(ids, id) ==
    [unique |-> ~Contains(ids, AsU32(id)),
     ids |-> PushBounded(ids, AsU32(id))]

MapGet(kv, k) == IF k \in DOMAIN kv THEN kv[k] ELSE EmptyStr

MapInsert(kv, k, v) == [x \in (DOMAIN kv) \cup {k} |-> IF x = k THEN v ELSE kv[x]]

Kv_apply_GetRecordsId(s, id, cmd) ==
    LET t == test_dup_id(s.ids, id) IN
    CASE cmd.op = "Put" ->
           [state |-> [kv |-> IF t.unique THEN MapInsert(s.kv, cmd.key, cmd.value)
                                          ELSE s.kv,
                       ids |-> t.ids],
            ret |-> EmptyStr]
      [] cmd.op = "Append" ->
           [state |-> [kv |-> IF t.unique
                              THEN MapInsert(s.kv, cmd.key,
                                             MapGet(s.kv, cmd.key) \o cmd.value)
                              ELSE s.kv,
                       ids |-> t.ids],
            ret |-> EmptyStr]
      [] OTHER ->
           [state |-> [kv |-> s.kv, ids |-> t.ids], ret |-> MapGet(s.kv, cmd.key)]

Kv_apply(s, id, cmd) ==
    CASE cmd.op = "Put" ->
           LET t == test_dup_id(s.ids, id) IN
           [state |-> [kv |-> IF t.unique THEN MapInsert(s.kv, cmd.key, cmd.value)
                                          ELSE s.kv,
                       ids |-> t.ids],
            ret |-> EmptyStr]
      [] cmd.op = "Append" ->
           LET t == test_dup_id(s.ids, id) IN
           [state |-> [kv |-> IF t.unique
                              THEN MapInsert(s.kv, cmd.key,
                                             MapGet(s.kv, cmd.key) \o cmd.value)
                              ELSE s.kv,
                       ids |-> t.ids],
            ret |-> EmptyStr]
      [] OTHER ->
           [state |-> s, ret |-> MapGet(s.kv, cmd.key)]

(* What a mutating command does to the mapping when it is not suppressed. *)
Effect(kv, cmd) ==
    IF cmd.op = "Put" THEN MapInsert(kv, cmd.key, cmd.value)
    ELSE MapInsert(kv, cmd.key, MapGet(kv, cmd.key) \o cmd.value)

-----------------------------------------------------------------------------
(* bincode: serialized data as a sequence of integer tokens.  A u64 is its  *)
(* low half then its high half, an enum is its variant index then its      *)
(* fields, a String or a collection is its length then its elements.       *)

EncString(str) == <<Len(str)>> \o str

ReadString(d, p) ==
    IF p <= Len(d) /\ d[p] >= 0 /\ p + d[p] <= Len(d)
    THEN [ok |-> TRUE, val |-> SubSeq(d, p + 1, p + d[p]), next |-> p + d[p] + 1]
    ELSE [ok |-> FALSE, val |-> EmptyStr, next |-> p]

VariantIndex(cmd) ==
    CASE cmd.op = "Get" -> 0 [] cmd.op = "Put" -> 1 [] OTHER -> 2

(* bincode::serialize(&(id, cmd)) *)
serialize_cmd(id, cmd) ==
    <<id.lo, id.hi, VariantIndex(cmd)>> \o EncString(cmd.key)
        \o (IF cmd.op = "Get" THEN <<>> ELSE EncString(cmd.value))

DecodeError == [ok |-> FALSE, id |-> Id(0, 0), cmd |-> Get(EmptyStr)]

(* bincode::deserialize::<(u64, Op)>(&data) *)
deserialize_cmd(d) ==
    IF Len(d) < 3 \/ d[3] \notin {0, 1, 2} THEN DecodeError
    ELSE LET k == ReadString(d, 4) IN
         IF ~k.ok THEN DecodeError
         ELSE IF d[3] = 0
              THEN [ok |-> TRUE, id |-> Id(d[2], d[1]), cmd |-> Get(k.val)]
              ELSE LET v == ReadString(d, k.next) IN
                   IF ~v.ok THEN DecodeError
                   ELSE [ok |-> TRUE, id |-> Id(d[2], d[1]),
                         cmd |-> IF d[3] = 1 THEN Put(k.val, v.val)
                                             ELSE AppendOp(k.val, v.val)]

(* The entries of a HashMap in iteration order (unspecified; a fixed one). *)
RECURSIVE EncEntries(_, _)
EncEntries(kv, keys) ==
    IF keys = {} THEN <<>>
    ELSE LET k == CHOOSE x \in keys : TRUE IN
         EncString(k) \o EncString(kv[k]) \o EncEntries(kv, keys \ {k})

serialize_kv_NoIds(s) ==
    <<Cardinality(DOMAIN s.kv)>> \o EncEntries(s.kv, DOMAIN s.kv) \o <<0>>

(* bincode::serialize(&Kv) *)
serialize_kv(s) ==
    <<Cardinality(DOMAIN s.kv)>> \o EncEntries(s.kv, DOMAIN s.kv)
        \o <<Len(s.ids)>> \o s.ids

RECURSIVE ReadEntries(_, _, _, _)
ReadEntries(d, p, n, kv) ==
    IF n = 0 THEN [ok |-> TRUE, kv |-> kv, next |-> p]
    ELSE LET k == ReadString(d, p) IN
         IF ~k.ok THEN [ok |-> FALSE, kv |-> kv, next |-> p]
         ELSE LET v == ReadString(d, k.next) IN
              IF ~v.ok THEN [ok |-> FALSE, kv |-> kv, next |-> p]
              ELSE ReadEntries(d, v.next, n - 1, MapInsert(kv, k.val, v.val))

(* bincode::deserialize::<Kv>(&data) *)
deserialize_kv(d) ==
    IF Len(d) < 1 \/ d[1] < 0 THEN [ok |-> FALSE, state |-> KvDefault]
    ELSE LET m == ReadEntries(d, 2, d[1], KvDefault.kv) IN
         IF ~m.ok \/ m.next > Len(d) \/ d[m.next] < 0
               \/ m.next + d[m.next] > Len(d)
         THEN [ok |-> FALSE, state |-> KvDefault]
         ELSE [ok |-> TRUE,
               state |-> [kv |-> m.kv,
                          ids |-> SubSeq(d, m.next + 1, m.next + d[m.next])]]

(* A payload that decodes neither as a command nor as a state. *)
Garbage == <<>>

-----------------------------------------------------------------------------
(* Initial values of the server *)

Callers == 1..MaxCallers

(* the tasks of the lock view: the apply loop and the calls of Server::apply *)
LoopTask == 0
LockTasks == {LoopTask} \cup Callers

NoReq == Id(0, 0)
NoAns == [kind |-> "none", index |-> 0, hint |-> 0]
NoRes == [kind |-> "none", value |-> EmptyStr, hint |-> 0]
NoChan == [st |-> "none", val |-> EmptyStr]
NoSnap == [index |-> 0, data |-> <<>>]
NotObserved == [term |-> 0, leader |-> "none"]
NoLast == [id |-> Id(0, 0), cmd |-> Get(EmptyStr), ret |-> EmptyStr,
           pre |-> KvDefault, preseen |-> <<>>,
           previd |-> Id(0, 0), prevcmd |-> Get(EmptyStr)]

InitServer ==
    /\ rpcs = [i \in {} |-> [id |-> Id(0, 0), sender |-> 0]]
    /\ chan = [c \in Callers |-> NoChan]
    /\ pc = [c \in Callers |-> "idle"]
    /\ creq = [c \in Callers |-> NoReq]
    /\ startRes = [c \in Callers |-> NoAns]
    /\ cidx = [c \in Callers |-> 0]
    /\ cres = [c \in Callers |-> NoRes]
    /\ ref = KvDefault
    /\ lastIndex = 0
    /\ loopPc = "recv"
    /\ snapReq = NoSnap
    /\ lastKind = "none"
    /\ observed = NotObserved
    /\ tasks = [t \in LockTasks |->
                   [at |-> IF t = LoopTask THEN "recv" ELSE "idle", holds |-> {}]]
    /\ late = {}
    /\ applied = [i \in {} |-> [id |-> Id(0, 0), ret |-> EmptyStr]]

-----------------------------------------------------------------------------
(* The pending-RPC registry and the oneshot channels *)

(* oneshot::Sender::send; an error (receiver gone) is ignored by the caller *)
Send(ch, c, v) ==
    IF ch[c].st = "pending" THEN [ch EXCEPT ![c] = [st |-> "sent", val |-> v]]
    ELSE ch

(* dropping a oneshot::Sender that was never used *)
DropSender(ch, c) ==
    IF ch[c].st = "pending" THEN [ch EXCEPT ![c] = [st |-> "closed", val |-> EmptyStr]]
    ELSE ch

register_KeepFirst(r, ch, index, id, c) ==
    IF index \in DOMAIN r
    THEN [rpcs |-> r, chan |-> [ch EXCEPT ![c] = [st |-> "closed", val |-> EmptyStr]]]
    ELSE [rpcs |-> [i \in (DOMAIN r) \cup {index} |->
                       IF i = index THEN [id |-> id, sender |-> c] ELSE r[i]],
          chan |-> [ch EXCEPT ![c] = [st |-> "pending", val |-> EmptyStr]]]

(* Rpcs::register: the result is the map and the channels afterwards *)
register(r, ch, index, id, c) ==
    [rpcs |-> [i \in (DOMAIN r) \cup {index} |->
                  IF i = index THEN [id |-> id, sender |-> c] ELSE r[i]],
     chan |-> [(IF index \in DOMAIN r THEN DropSender(ch, r[index].sender) ELSE ch)
                  EXCEPT ![c] = [st |-> "pending", val |-> EmptyStr]]]

complete_NoIdCheck(r, ch, index, id, value) ==
    IF index \in DOMAIN r
    THEN [rpcs |-> [i \in (DOMAIN r) \ {index} |-> r[i]],
          chan |-> Send(ch, r[index].sender, value)]
    ELSE [rpcs |-> r, chan |-> ch]

complete_KeepOnMismatch(r, ch, index, id, value) ==
    IF index \in DOMAIN r /\ r[index].id = id
    THEN [rpcs |-> [i \in (DOMAIN r) \ {index} |-> r[i]],
          chan |-> Send(ch, r[index].sender, value)]
    ELSE [rpcs |-> r, chan |-> ch]

complete_ClearsBelow(r, ch, index, id, value) ==
    [rpcs |-> [i \in {j \in DOMAIN r : j > index} |-> r[i]],
     chan |-> IF index \in DOMAIN r
              THEN IF id = r[index].id
                   THEN Send(ch, r[index].sender, value)
                   ELSE DropSender(ch, r[index].sender)
              ELSE ch]

(* Rpcs::complete *)
complete(r, ch, index, id, value) ==
    IF index \in DOMAIN r
    THEN [rpcs |-> [i \in (DOMAIN r) \ {index} |-> r[i]],
          chan |-> IF id = r[index].id
                   THEN Send(ch, r[index].sender, value)
                   ELSE DropSender(ch, r[index].sender)]
    ELSE [rpcs |-> r, chan |-> ch]

-----------------------------------------------------------------------------
(* SpecKv: Kv::apply on its own, called with commands drawn from small     *)
(* sets, starting from the default state or from a state whose window is   *)
(* full: IdX applied first, then WindowSize - 1 other identifiers.         *)

KvIds == {IdX, IdXhi, IdY}
KvOps == {Get(KeyA), Put(KeyA, Str1), AppendOp(KeyA, Str2), Put(KeyA, Str9)}

PrefillLen == WindowSize - 1

KvRun(id, cmd) ==
    LET r == Kv_apply(state, id, cmd) IN
    /\ state' = r.state
    /\ last' = [id |-> id, cmd |-> cmd, ret |-> r.ret,
                pre |-> state, preseen |-> seen,
                previd |-> last.id, prevcmd |-> last.cmd]
    /\ seen' = IF Mutating(cmd) THEN Append(seen, id) ELSE seen

InitKv ==
    /\ InitServer
    /\ maxRaftState = FALSE
    /\ state = KvDefault
    /\ seen = <<>>
    /\ last = NoLast
    /\ napplied = 0

(* Filling the window: IdX first, then PrefillLen identifiers never used again. *)
KvPrefill ==
    /\ napplied = 0
    /\ Len(seen) <= PrefillLen
    /\ IF Len(seen) = 0 THEN KvRun(IdX, Put(KeyA, Str1))
                        ELSE KvRun(Filler(Len(seen)), Put(KeyB, Str1))
    /\ UNCHANGED <<napplied, srvVars, tasks, late>>

KvStep(id, cmd) ==
    /\ napplied < MaxApplied
    /\ (napplied > 0 \/ Len(seen) \in {0, PrefillLen + 1})
    /\ KvRun(id, cmd)
    /\ napplied' = napplied + 1
    /\ UNCHANGED <<srvVars, tasks, late>>

NextKv ==
    \/ KvPrefill
    \/ \E id \in KvIds, cmd \in KvOps : KvStep(id, cmd)

SpecKv == InitKv /\ [][NextKv]_vars

-----------------------------------------------------------------------------
(* Claims about Kv::apply, checked under SpecKv *)

(* The last WindowSize identifiers of a history. *)
SeenWindow(h) ==
    IF Len(h) <= WindowSize THEN h ELSE SubSeq(h, Len(h) - WindowSize + 1, Len(h))

Suppressed == state.kv = last.pre.kv /\ last.ret = EmptyStr

TookEffect == state.kv = Effect(last.pre.kv, last.cmd) /\ last.ret = EmptyStr

\* C1: a Put or Append whose identifier is one of the last 100 identifiers
\* seen by mutating commands leaves the mapping unchanged and returns the
\* empty string; applying the same (identifier, Put|Append) twice in
\* immediate succession leaves the mapping as the first application left it.
C1_AtMostOnce ==
    (napplied > 0 /\ Mutating(last.cmd)) =>
        /\ Contains(SeenWindow(last.preseen), last.id) => Suppressed
        /\ (napplied > 1 /\ last.previd = last.id /\ last.prevcmd = last.cmd)
               => state.kv = last.pre.kv

C1_Witness ==
    /\ napplied = 4
    /\ last.id = IdX /\ last.cmd = Put(KeyA, Str9)
    /\ Contains(SeenWindow(last.preseen), IdX)
    /\ last.pre.kv = [k \in {KeyA} |-> Str1 \o Str2]
    /\ state.kv = [k \in {KeyA} |-> Str1 \o Str2]

\* C2: a Put or Append whose 64-bit identifier differs from every identifier
\* in the window takes effect: Put makes key map to value, Append makes key
\* map to the old value (empty if absent) followed by value.
C2_FreshIdTakesEffect ==
    (napplied > 0 /\ Mutating(last.cmd)
        /\ ~Contains(SeenWindow(last.preseen), last.id))
        => TookEffect

\* C9: Get returns the current value of key (the empty string if absent) and
\* changes neither the mapping nor the window, whatever its identifier; the
\* window holds only identifiers of mutating commands, so a suppressed
\* Put/Append was suppressed by a mutating command's identifier.
C9_GetIsPure ==
    /\ (napplied > 0 /\ last.cmd.op = "Get") =>
          /\ last.ret = MapGet(last.pre.kv, last.cmd.key)
          /\ state = last.pre
    /\ state.ids = [i \in 1..Len(SeenWindow(seen)) |-> AsU32(SeenWindow(seen)[i])]
    /\ (napplied > 0 /\ Mutating(last.cmd) /\ ~TookEffect) =>
          \E i \in 1..Len(SeenWindow(last.preseen)) :
              AsU32(SeenWindow(last.preseen)[i]) = AsU32(last.id)

C9_Witness ==
    /\ napplied > 0
    /\ last.cmd = Get(KeyA)
    /\ Contains(last.pre.ids, AsU32(last.id))
    /\ last.ret = Str1 \o Str2
    /\ state = last.pre

(* The last k identifiers of history h are pairwise distinct, none is x, and
   the one right before them is x. *)
OthersSince(h, x, k) ==
    /\ Len(h) > k
    /\ h[Len(h) - k] = x
    /\ \A i \in (Len(h) - k + 1)..Len(h) : h[i] # x
    /\ Cardinality({h[i] : i \in (Len(h) - k + 1)..Len(h)}) = k

\* C10: the window boundary is exactly 100: a mutating command with
\* identifier X applied after X and then 100 other distinct identifiers
\* (mutating) takes effect; after X and only 99 others it is suppressed.
C10_WindowBoundary ==
    (napplied > 0 /\ Mutating(last.cmd)) =>
        /\ OthersSince(last.preseen, last.id, WindowSize) => TookEffect
        /\ OthersSince(last.preseen, last.id, WindowSize - 1) => Suppressed

\* C11: the window never holds more than 100 identifiers, and a mutating
\* command applied to a full window removes the oldest entry (the front) and
\* keeps the others in the order they were recorded.
C11_WindowBounded ==
    /\ Len(state.ids) <= WindowSize
    /\ (Mutating(last.cmd) /\ Len(last.pre.ids) = WindowSize) =>
          /\ Len(state.ids) = WindowSize
          /\ \A i \in 1..(WindowSize - 1) : state.ids[i] = last.pre.ids[i + 1]
          /\ state.ids[WindowSize] = AsU32(last.id)

C11_Witness ==
    /\ napplied = 1
    /\ last.id = IdY
    /\ Mutating(last.cmd)
    /\ Len(last.pre.ids) = WindowSize
    /\ Head(last.pre.ids) = AsU32(IdX)
    /\ Head(state.ids) = AsU32(Filler(1))
    /\ ~Contains(state.ids, AsU32(IdX))

(* The identifiers of history h in the form the window stores them. *)
Stored(h) == [i \in 1..Len(h) |-> AsU32(h[i])]

\* C20: every Put or Append, suppressed or not, appends its identifier to the
\* window and evicts the front entry when the window already holds 100; so
\* the window is the identifiers of the last min(100, n) mutating
\* applications, repetitions included, in the form the window stores them.
C20_WindowUpdate ==
    /\ state.ids = Stored(SeenWindow(seen))
    /\ Len(state.ids) = (IF Len(seen) < WindowSize THEN Len(seen) ELSE WindowSize)
    /\ Mutating(last.cmd) =>
          state.ids = (IF Len(last.pre.ids) >= WindowSize
                       THEN Tail(last.pre.ids) ELSE last.pre.ids)
                      \o <<AsU32(last.id)>>

(* A suppressed duplicate of IdY changes the window: it evicts Filler(1), which
   fewer than 100 distinct identifiers have followed. *)
C20_Witness ==
    /\ napplied = 2
    /\ last.id = IdY /\ last.previd = IdY
    /\ last.cmd = AppendOp(KeyA, Str2)
    /\ state.kv = last.pre.kv
    /\ state.ids # last.pre.ids
    /\ Contains(last.pre.ids, AsU32(Filler(1)))
    /\ ~Contains(state.ids, AsU32(Filler(1)))
    /\ Cardinality({seen[i] : i \in 3..Len(seen)}) < WindowSize

-----------------------------------------------------------------------------
(* The server: calls of Server::apply, the apply loop, and the consensus   *)
(* module (raft::RaftHandle) as the environment.                           *)

SrvIds == {IdX, IdXhi}
SrvOps == {Get(KeyA), Put(KeyA, Str1), AppendOp(KeyA, Str2)}
Hints == {1}

InitAny ==
    /\ InitServer
    /\ state = KvDefault
    /\ seen = <<>>
    /\ last = NoLast
    /\ napplied = 0

callVars == <<pc, creq, startRes, cidx, cres>>
loopVars == <<lastIndex, loopPc, snapReq, lastKind, applied>>

Server_apply_call_AppliesLocally(c, id, cmd) ==
    /\ pc[c] = "idle"
    /\ IF c = 1 THEN TRUE ELSE pc[c - 1] # "idle"
    /\ pc' = [pc EXCEPT ![c] = "start"]
    /\ creq' = [creq EXCEPT ![c] = id]
    /\ state' = Kv_apply(state, id, cmd).state
    /\ UNCHANGED <<rpcs, chan, startRes, cidx, cres, ref, loopVars,
                   maxRaftState, kvHist, observed, tasks, late>>

(* Server::apply is called: serialize (id, cmd), hand it to rf.start, await *)
Server_apply_call(c, id, cmd) ==
    /\ pc[c] = "idle"
    /\ IF c = 1 THEN TRUE ELSE pc[c - 1] # "idle"   \* calls are numbered in order
    /\ pc' = [pc EXCEPT ![c] = "start"]
    /\ creq' = [creq EXCEPT ![c] = id]
    /\ UNCHANGED <<state, rpcs, chan, startRes, cidx, cres, ref, loopVars,
                   maxRaftState, kvHist, observed, tasks, late>>

(* rf.start answers Ok(Start{index}): an index the apply loop has not seen *)
Raft_start_ok(c, i) ==
    /\ pc[c] = "start"
    /\ i > lastIndex
    /\ startRes' = [startRes EXCEPT ![c] = [kind |-> "Ok", index |-> i, hint |-> 0]]
    /\ pc' = [pc EXCEPT ![c] = "started"]
    /\ UNCHANGED <<state, rpcs, chan, creq, cidx, cres, ref, loopVars,
                   maxRaftState, kvHist, observed, tasks, late>>

(* rf.start answers Err(NotLeader(hint)) *)
Raft_start_not_leader(c, h) ==
    /\ pc[c] = "start"
    /\ startRes' = [startRes EXCEPT ![c] = [kind |-> "NotLeader", index |-> 0, hint |-> h]]
    /\ pc' = [pc EXCEPT ![c] = "started"]
    /\ UNCHANGED <<state, rpcs, chan, creq, cidx, cres, ref, loopVars,
                   maxRaftState, kvHist, observed, tasks, late>>

(* Server::apply returns res; its locals are gone *)
Return(c, res) ==
    /\ pc' = [pc EXCEPT ![c] = "done"]
    /\ cres' = [cres EXCEPT ![c] = res]
    /\ creq' = [creq EXCEPT ![c] = NoReq]
    /\ cidx' = [cidx EXCEPT ![c] = 0]
    /\ startRes' = [startRes EXCEPT ![c] = NoAns]
    /\ late' = late \ {c}

(* the registration of index by a call with identifier id comes after the
   loop applied a command with that identifier at that index *)
AfterApplied(index, id) == index \in DOMAIN applied /\ applied[index].id = id

Server_apply_resume_AlwaysRegisters(c) ==
    /\ pc[c] = "started"
    /\ LET g == register(rpcs, chan, startRes[c].index, creq[c], c) IN
       IF startRes[c].kind = "NotLeader"
       THEN /\ Return(c, [kind |-> "NotLeader", value |-> EmptyStr,
                          hint |-> startRes[c].hint])
            /\ rpcs' = g.rpcs
            /\ UNCHANGED chan
       ELSE /\ rpcs' = g.rpcs
            /\ chan' = g.chan
            /\ cidx' = [cidx EXCEPT ![c] = startRes[c].index]
            /\ startRes' = [startRes EXCEPT ![c] = NoAns]
            /\ pc' = [pc EXCEPT ![c] = "wait"]
            /\ late' = IF AfterApplied(startRes[c].index, creq[c])
                       THEN late \cup {c} ELSE late
            /\ UNCHANGED <<creq, cres>>
    /\ UNCHANGED <<state, ref, loopVars, maxRaftState, kvHist, observed, tasks>>

(* Server::apply resumes with the answer of rf.start: it returns NotLeader,
   or registers the index and awaits the receiver under the timeout *)
Server_apply_resume(c) ==
    /\ pc[c] = "started"
    /\ IF startRes[c].kind = "NotLeader"
       THEN /\ Return(c, [kind |-> "NotLeader", value |-> EmptyStr,
                          hint |-> startRes[c].hint])
            /\ UNCHANGED <<rpcs, chan>>
       ELSE LET g == register(rpcs, chan, startRes[c].index, creq[c], c) IN
            /\ rpcs' = g.rpcs
            /\ chan' = g.chan
            /\ cidx' = [cidx EXCEPT ![c] = startRes[c].index]
            /\ startRes' = [startRes EXCEPT ![c] = NoAns]
            /\ pc' = [pc EXCEPT ![c] = "wait"]
            /\ late' = IF AfterApplied(startRes[c].index, creq[c])
                       THEN late \cup {c} ELSE late
            /\ UNCHANGED <<creq, cres>>
    /\ UNCHANGED <<state, ref, loopVars, maxRaftState, kvHist, observed, tasks>>

(* the receiver is dropped when Server::apply returns *)
DropReceiver(ch, c) == [ch EXCEPT ![c] = [st |-> "dropped", val |-> EmptyStr]]

(* the receiver yields Ok(output): Server::apply returns Ok(output) *)
Server_apply_output(c) ==
    /\ pc[c] = "wait"
    /\ chan[c].st = "sent"
    /\ Return(c, [kind |-> "Ok", value |-> chan[c].val, hint |-> 0])
    /\ chan' = DropReceiver(chan, c)
    /\ UNCHANGED <<state, ref, rpcs, loopVars, maxRaftState, kvHist, observed, tasks>>

(* the receiver yields Err(Canceled): Server::apply returns Err(Failed) *)
Server_apply_failed(c) ==
    /\ pc[c] = "wait"
    /\ chan[c].st = "closed"
    /\ Return(c, [kind |-> "Failed", value |-> EmptyStr, hint |-> 0])
    /\ chan' = DropReceiver(chan, c)
    /\ UNCHANGED <<state, ref, rpcs, loopVars, maxRaftState, kvHist, observed, tasks>>

Server_apply_timeout_RemovesSlot(c) ==
    /\ pc[c] = "wait"
    /\ chan[c].st = "pending"
    /\ Return(c, [kind |-> "Timeout", value |-> EmptyStr, hint |-> 0])
    /\ chan' = DropReceiver(chan, c)
    /\ rpcs' = [i \in (DOMAIN rpcs) \ {cidx[c]} |-> rpcs[i]]
    /\ UNCHANGED <<state, ref, loopVars, maxRaftState, kvHist, observed, tasks>>

Server_apply_timeout_NoTimer(c) ==
    /\ FALSE
    /\ UNCHANGED vars

(* the 500ms elapse with the receiver still pending: Err(Timeout) *)
Server_apply_timeout(c) ==
    /\ pc[c] = "wait"
    /\ chan[c].st = "pending"
    /\ Return(c, [kind |-> "Timeout", value |-> EmptyStr, hint |-> 0])
    /\ chan' = DropReceiver(chan, c)
    /\ UNCHANGED <<state, ref, rpcs, loopVars, maxRaftState, kvHist, observed, tasks>>

(* Consensus module: the payloads it may commit *)
Entries(ids) == {serialize_cmd(id, cmd) : id \in ids, cmd \in SrvOps}

(* The state of a replica that applies the entries es one by one to s *)
RECURSIVE AppliedState(_, _)
AppliedState(s, es) ==
    IF es = <<>> THEN s
    ELSE LET d == deserialize_cmd(Head(es)) IN
         AppliedState(Kv_apply(s, d.id, d.cmd).state, Tail(es))

(* the position after a record: the size probe if max_raft_state is Some *)
AfterRecord == IF maxRaftState THEN "probe" ELSE "recv"

Loop_command_SkipsUndecodable(data) ==
    /\ loopPc = "recv"
    /\ lastIndex < MaxIndex
    /\ LET index == lastIndex + 1
           d == deserialize_cmd(data)
       IN IF ~d.ok
          THEN /\ loopPc' = AfterRecord
               /\ lastIndex' = index
               /\ UNCHANGED <<state, ref, rpcs, chan, lastKind, applied>>
          ELSE LET r == Kv_apply(state, d.id, d.cmd)
                   g == complete(rpcs, chan, index, d.id, r.ret)
               IN /\ state' = r.state
                  /\ ref' = AppliedState(ref, <<data>>)
                  /\ rpcs' = g.rpcs
                  /\ chan' = g.chan
                  /\ lastIndex' = index
                  /\ lastKind' = "Command"
                  /\ applied' = [i \in (DOMAIN applied) \cup {index} |->
                                    IF i = index THEN [id |-> d.id, ret |-> r.ret]
                                    ELSE applied[i]]
                  /\ loopPc' = AfterRecord
    /\ UNCHANGED <<callVars, maxRaftState, snapReq, kvHist, observed, tasks, late>>

(* apply loop, ApplyMsg::Command { index, data }: the consensus module
   commits data at the next index and the loop receives it *)
Loop_command(data) ==
    /\ loopPc = "recv"
    /\ lastIndex < MaxIndex
    /\ LET index == lastIndex + 1
           d == deserialize_cmd(data)
       IN IF ~d.ok
          THEN /\ loopPc' = "panic_deserialize_command"
               /\ UNCHANGED <<state, ref, rpcs, chan, lastIndex, lastKind, applied>>
          ELSE LET r == Kv_apply(state, d.id, d.cmd)
                   g == complete(rpcs, chan, index, d.id, r.ret)
               IN /\ state' = r.state
                  /\ ref' = AppliedState(ref, <<data>>)
                  /\ rpcs' = g.rpcs
                  /\ chan' = g.chan
                  /\ lastIndex' = index
                  /\ lastKind' = "Command"
                  /\ applied' = [i \in (DOMAIN applied) \cup {index} |->
                                    IF i = index THEN [id |-> d.id, ret |-> r.ret]
                                    ELSE applied[i]]
                  /\ loopPc' = AfterRecord
    /\ UNCHANGED <<callVars, maxRaftState, snapReq, kvHist, observed, tasks, late>>

(* Consensus module: the payload of a snapshot taken after the entries es
   that follow lastIndex, serialized by a replica that applied them all *)
SnapshotPayload(es) == serialize_kv(AppliedState(ref, es))

Loop_snapshot_ClearsSlots(es, data) ==
    /\ loopPc = "recv"
    /\ lastIndex + Len(es) <= MaxIndex
    /\ LET index == lastIndex + Len(es)
           d == deserialize_kv(data)
       IN IF ~d.ok
          THEN /\ loopPc' = "panic_deserialize_snapshot"
               /\ UNCHANGED <<state, ref, lastIndex, lastKind, rpcs>>
          ELSE /\ state' = d.state
               /\ ref' = AppliedState(ref, es)
               /\ lastIndex' = index
               /\ lastKind' = "Snapshot"
               /\ loopPc' = AfterRecord
               /\ rpcs' = [i \in {j \in DOMAIN rpcs : j > index} |-> rpcs[i]]
    /\ UNCHANGED <<chan, callVars, maxRaftState, snapReq, applied, kvHist, observed, tasks, late>>

(* apply loop, ApplyMsg::Snapshot { index, data }, where the entries es were
   committed after lastIndex and index is the index of the last of them *)
Loop_snapshot(es, data) ==
    /\ loopPc = "recv"
    /\ lastIndex + Len(es) <= MaxIndex
    /\ LET index == lastIndex + Len(es)
           d == deserialize_kv(data)
       IN IF ~d.ok
          THEN /\ loopPc' = "panic_deserialize_snapshot"
               /\ UNCHANGED <<state, ref, lastIndex, lastKind>>
          ELSE /\ state' = d.state
               /\ ref' = AppliedState(ref, es)
               /\ lastIndex' = index
               /\ lastKind' = "Snapshot"
               /\ loopPc' = AfterRecord
    /\ UNCHANGED <<rpcs, chan, callVars, maxRaftState, snapReq, applied, kvHist, observed, tasks, late>>

Loop_probe_PreviousIndex(big) ==
    /\ loopPc = "probe"
    /\ IF big
       THEN /\ snapReq' = [index |-> lastIndex - 1, data |-> serialize_kv(state)]
            /\ loopPc' = "snapshot"
       ELSE /\ loopPc' = "recv"
            /\ UNCHANGED snapReq
    /\ UNCHANGED <<state, ref, rpcs, chan, callVars, lastIndex, lastKind, applied,
                   maxRaftState, kvHist, observed, tasks, late>>

(* apply loop, fs::metadata("state") answers; on a large file the state is
   serialized and handed to rf.snapshot *)
Loop_probe(big) ==
    /\ loopPc = "probe"
    /\ IF big
       THEN /\ snapReq' = [index |-> lastIndex, data |-> serialize_kv(state)]
            /\ loopPc' = "snapshot"
       ELSE /\ loopPc' = "recv"
            /\ UNCHANGED snapReq
    /\ UNCHANGED <<state, ref, rpcs, chan, callVars, lastIndex, lastKind, applied,
                   maxRaftState, kvHist, observed, tasks, late>>

(* apply loop, rf.snapshot answers; an error panics in unwrap *)
Loop_snapshot_ack(ok) ==
    /\ loopPc = "snapshot"
    /\ loopPc' = IF ok THEN "recv" ELSE "panic_rf_snapshot"
    /\ snapReq' = NoSnap
    /\ UNCHANGED <<state, ref, rpcs, chan, callVars, lastIndex, lastKind, applied,
                   maxRaftState, kvHist, observed, tasks, late>>

(* Server::term: the term rf.term() reports, which never decreases *)
Server_term(t) ==
    /\ t >= observed.term
    /\ observed' = [observed EXCEPT !.term = t]
    /\ UNCHANGED <<state, rpcs, chan, callVars, ref, loopVars, maxRaftState, kvHist,
                   tasks, late>>

(* Server::is_leader: what rf.is_leader() reports *)
Server_is_leader(b) ==
    /\ observed' = [observed EXCEPT !.leader = IF b THEN "true" ELSE "false"]
    /\ UNCHANGED <<state, rpcs, chan, callVars, ref, loopVars, maxRaftState, kvHist,
                   tasks, late>>

(* the steps of the calls of Server::apply and of rf.start answering them *)
NextCalls(C, I) ==
    \/ \E c \in C, id \in I, cmd \in SrvOps : Server_apply_call(c, id, cmd)
    \/ \E c \in C, i \in 1..MaxIndex : Raft_start_ok(c, i)
    \/ \E c \in C, h \in Hints : Raft_start_not_leader(c, h)
    \/ \E c \in C : Server_apply_resume(c)
    \/ \E c \in C : Server_apply_output(c)
    \/ \E c \in C : Server_apply_failed(c)
    \/ \E c \in C : Server_apply_timeout(c)

(* the apply loop receiving a record *)
NextRecord(E, S, D) ==
    \/ \E data \in E \cup D : Loop_command(data)
    \/ \E k \in 1..(MaxIndex - lastIndex) :
           \E es \in [1..k -> S] : \E data \in {SnapshotPayload(es)} \cup D :
               Loop_snapshot(es, data)

(* the apply loop compacting *)
NextCompaction ==
    \/ \E big \in BOOLEAN : Loop_probe(big)
    \/ \E ok \in BOOLEAN : Loop_snapshot_ack(ok)

(* Spec: a server created with max_raft_state = None, MaxCallers calls with
   the identifier IdX; the records are a Get of that identifier and a Put of
   another one, snapshots cover Put records, and every payload is well-formed
   (SpecCompact and SpecLive have the damaged ones) *)
Init == InitAny /\ maxRaftState = FALSE

SrvEntries == {serialize_cmd(IdX, Get(KeyA)), serialize_cmd(IdXhi, Put(KeyA, Str1))}
SnapEntries == {serialize_cmd(IdXhi, Put(KeyA, Str1))}

Next == NextCalls(Callers, {IdX}) \/ NextRecord(SrvEntries, SnapEntries, {})

Spec == Init /\ [][Next]_vars

(* SpecSupersede: as Spec, with calls of both identifiers and a commit stream
   of Command records only *)
NextSupersede ==
    \/ NextCalls(Callers, SrvIds)
    \/ \E data \in SrvEntries : Loop_command(data)

SpecSupersede == Init /\ [][NextSupersede]_vars

(* SpecCompact: a server created with max_raft_state = Some(_), one call *)
InitCompact == InitAny /\ maxRaftState = TRUE

NextCompact ==
    \/ NextCalls({1}, SrvIds)
    \/ NextRecord(Entries(KvIds), Entries(KvIds), {Garbage})
    \/ NextCompaction

SpecCompact == InitCompact /\ [][NextCompact]_vars

(* SpecLive: calls of Server::apply with one identifier against an apply loop
   that receives only Get records of that identifier and damaged ones, with
   the scheduling the runtime guarantees to a call of Server::apply: a resumed
   task runs, and the timer of timeout() fires.  Nothing is assumed of the
   apply loop or the consensus module. *)
LiveEntry == serialize_cmd(IdX, Get(KeyA))

NextLive ==
    \/ NextCalls(Callers, {IdX})
    \/ \E data \in {LiveEntry, Garbage} : Loop_command(data)
    \/ \E k \in 1..(MaxIndex - lastIndex) :
           Loop_snapshot([i \in 1..k |-> LiveEntry],
                         SnapshotPayload([i \in 1..k |-> LiveEntry]))

SpecLive ==
    /\ Init
    /\ [][NextLive]_vars
    /\ \A c \in Callers :
          /\ WF_vars(Server_apply_resume(c))
          /\ WF_vars(Server_apply_output(c))
          /\ WF_vars(Server_apply_failed(c))
          /\ WF_vars(Server_apply_timeout(c))

-----------------------------------------------------------------------------
(* The lock view: the same code followed from lock to unlock.  A task is at  *)
(* a place of the code and holds a set of MutexGuards; "state" is the lock   *)
(* of Server.state and "rpcs" the lock of Rpcs.rpcs.  Mutex::lock() returns  *)
(* only when no guard of that mutex is alive; a guard created as a temporary *)
(* is dropped at the end of its statement, the guard bound in Rpcs::complete *)
(* when the function returns.                                                *)

Free(l) == \A t \in LockTasks : l \notin tasks[t].holds

Move(t, from, to) ==
    /\ tasks[t].at = from
    /\ tasks' = [tasks EXCEPT ![t].at = to]
    /\ UNCHANGED <<state, srvVars, kvHist, late>>

Acquire(t, l, from, to) ==
    /\ tasks[t].at = from
    /\ Free(l)
    /\ tasks' = [tasks EXCEPT ![t] = [at |-> to, holds |-> tasks[t].holds \cup {l}]]
    /\ UNCHANGED <<state, srvVars, kvHist, late>>

Drop(t, l, from, to) ==
    /\ tasks[t].at = from
    /\ tasks' = [tasks EXCEPT ![t] = [at |-> to, holds |-> tasks[t].holds \ {l}]]
    /\ UNCHANGED <<state, srvVars, kvHist, late>>

(* apply_ch.next() yields a Snapshot record, its payload deserializes *)
Lock_loop_recv_snapshot == Move(LoopTask, "recv", "snapshot_lock")
(* state0.lock() in the Snapshot arm *)
Lock_loop_snapshot_lock == Acquire(LoopTask, "state", "snapshot_lock", "snapshot_assign")
(* the assignment is done, the statement ends *)
Lock_loop_snapshot_unlock == Drop(LoopTask, "state", "snapshot_assign", "after")

(* apply_ch.next() yields a Command record, its payload deserializes *)
Lock_loop_recv_command == Move(LoopTask, "recv", "apply_lock")
(* state0.lock() in the Command arm *)
Lock_loop_apply_lock == Acquire(LoopTask, "state", "apply_lock", "apply")

Lock_loop_apply_unlock_KeepsGuard == Move(LoopTask, "apply", "complete_lock")

(* apply() has returned, the statement `let ret = ...;` ends *)
Lock_loop_apply_unlock == Drop(LoopTask, "state", "apply", "complete_lock")
(* Rpcs::complete: self.rpcs.lock() *)
Lock_loop_complete_lock == Acquire(LoopTask, "rpcs", "complete_lock", "complete")
(* Rpcs::complete returns *)
Lock_loop_complete_unlock == Drop(LoopTask, "rpcs", "complete", "after")

(* after the match: await fs::metadata if max_raft_state is Some *)
Lock_loop_after ==
    Move(LoopTask, "after", IF maxRaftState THEN "probe_await" ELSE "recv")
(* fs::metadata answers *)
Lock_loop_probe(big) ==
    Move(LoopTask, "probe_await", IF big THEN "serialize_lock" ELSE "recv")
(* state0.lock() for bincode::serialize *)
Lock_loop_serialize_lock == Acquire(LoopTask, "state", "serialize_lock", "serialize")
(* the statement `let data = ...;` ends, rf.snapshot is awaited *)
Lock_loop_serialize_unlock == Drop(LoopTask, "state", "serialize", "snapshot_await")
(* rf.snapshot answers Ok *)
Lock_loop_snapshot_ack == Move(LoopTask, "snapshot_await", "recv")

(* Server::apply is called and awaits rf.start *)
Lock_call_start(c) ==
    /\ IF c = 1 THEN TRUE ELSE tasks[c - 1].at # "idle"
    /\ Move(c, "idle", "start_await")
(* rf.start answers NotLeader: return *)
Lock_call_not_leader(c) == Move(c, "start_await", "done")
(* rf.start answers Ok *)
Lock_call_started(c) == Move(c, "start_await", "register_lock")
(* Rpcs::register: self.rpcs.lock() *)
Lock_call_register_lock(c) == Acquire(c, "rpcs", "register_lock", "register")
(* the insert statement ends; the receiver is awaited under the timeout *)
Lock_call_register_unlock(c) == Drop(c, "rpcs", "register", "recver_await")
(* the receiver or the timer resolves: return *)
Lock_call_return(c) == Move(c, "recver_await", "done")

NextLocks ==
    \/ Lock_loop_recv_snapshot \/ Lock_loop_snapshot_lock \/ Lock_loop_snapshot_unlock
    \/ Lock_loop_recv_command \/ Lock_loop_apply_lock \/ Lock_loop_apply_unlock
    \/ Lock_loop_complete_lock \/ Lock_loop_complete_unlock
    \/ Lock_loop_after
    \/ \E big \in BOOLEAN : Lock_loop_probe(big)
    \/ Lock_loop_serialize_lock \/ Lock_loop_serialize_unlock \/ Lock_loop_snapshot_ack
    \/ \E c \in Callers :
          \/ Lock_call_start(c) \/ Lock_call_not_leader(c) \/ Lock_call_started(c)
          \/ Lock_call_register_lock(c) \/ Lock_call_register_unlock(c)
          \/ Lock_call_return(c)

(* SpecLocks: the apply loop of a server with max_raft_state = Some(_) and
   MaxCallers calls of Server::apply, any interleaving of their lock steps *)
SpecLocks == InitCompact /\ [][NextLocks]_vars

(* SpecObserve: a server created with max_raft_state = None, one call of
   Server::apply with either identifier, and calls of Server::term and
   Server::is_leader at any moment *)
NextObserve ==
    \/ NextCalls({1}, SrvIds)
    \/ NextRecord(SrvEntries, SnapEntries, {Garbage})
    \/ \E t \in 1..MaxTerm : Server_term(t)
    \/ \E b \in BOOLEAN : Server_is_leader(b)

SpecObserve == Init /\ [][NextObserve]_vars

-----------------------------------------------------------------------------
(* Claims about the server *)

LoopPositions == {"recv", "probe", "snapshot"}

(* the step in which the apply loop applied the Command record of index i *)
AppliedCommand(i) ==
    lastIndex = i - 1 /\ lastIndex' = i /\ lastKind' = "Command"

HasSlot(r, c) == \E i \in DOMAIN r : r[i].sender = c

\* C3: when Server::apply returns Ok(r), the Command record the apply loop
\* applied at the index that call registered carried the call's identifier,
\* and r is what Kv::apply returned for that record.
C3_ResponseMatchesRecord ==
    [][\A c \in Callers :
          (cres'[c].kind = "Ok" /\ cres[c].kind # "Ok") =>
              /\ pc[c] = "wait"
              /\ cidx[c] \in DOMAIN applied
              /\ applied[cidx[c]].id = creq[c]
              /\ cres'[c].value = applied[cidx[c]].ret]_vars

C3_Witness ==
    \E c \in Callers : cres[c].kind = "Ok" /\ cres[c].value = Str1

\* C4: complete(index, id, value) removes the slot of index whatever the
\* identifiers, delivers value to the waiting call only if the stored
\* identifier equals id, and otherwise closes the channel; a call waiting on
\* a closed channel returns Failed.
C4_Complete ==
    [][/\ \A i \in 1..MaxIndex : AppliedCommand(i) =>
             /\ i \notin DOMAIN rpcs'
             /\ \A j \in (DOMAIN rpcs) \ {i} : j \in DOMAIN rpcs' /\ rpcs'[j] = rpcs[j]
             /\ i \in DOMAIN rpcs =>
                   LET c == rpcs[i].sender IN
                   chan[c].st = "pending" =>
                       IF rpcs[i].id = applied'[i].id
                       THEN chan'[c] = [st |-> "sent", val |-> applied'[i].ret]
                       ELSE chan'[c].st = "closed"
             /\ \A c \in Callers :
                   (chan'[c].st = "sent" /\ chan[c].st # "sent") =>
                       /\ i \in DOMAIN rpcs
                       /\ rpcs[i].sender = c
                       /\ rpcs[i].id = applied'[i].id
       /\ \A c \in Callers :
             (pc[c] = "wait" /\ chan[c].st = "closed" /\ pc'[c] # "wait") =>
                 pc'[c] = "done" /\ cres'[c].kind = "Failed"]_vars

C4_Witness ==
    \E c \in Callers :
        /\ pc[c] = "wait"
        /\ chan[c].st = "closed"
        /\ cidx[c] \in DOMAIN applied
        /\ applied[cidx[c]].id # creq[c]
        /\ cidx[c] \notin DOMAIN rpcs

\* C5: when rf.start answers NotLeader(hint), the next step of the call
\* returns NotLeader with that hint, and the registry, the channels and the
\* state machine are as before; the call never has a registry entry.
C5_NotLeader ==
    /\ [][\A c \in Callers :
             (pc[c] = "started" /\ startRes[c].kind = "NotLeader" /\ pc'[c] # "started") =>
                 /\ pc'[c] = "done"
                 /\ cres'[c] = [kind |-> "NotLeader", value |-> EmptyStr,
                                hint |-> startRes[c].hint]
                 /\ rpcs' = rpcs
                 /\ chan' = chan
                 /\ state' = state]_vars
    /\ [](\A c \in Callers :
             (startRes[c].kind = "NotLeader" \/ cres[c].kind = "NotLeader") =>
                 ~HasSlot(rpcs, c) /\ chan[c].st = "none")

C5_Witness ==
    \E c \in Callers : cres[c].kind = "NotLeader" /\ cres[c].hint \in Hints

\* C6: a call whose channel is still pending when the timer fires returns
\* Timeout and leaves its slot in the registry; a Command record applied
\* later at that index removes the slot, is applied to the state machine,
\* changes no call's result or channel, and the apply loop goes on.
C6_TimeoutLeavesSlot ==
    [][/\ \A c \in Callers :
             (pc[c] = "wait" /\ chan[c].st = "pending" /\ pc'[c] # "wait") =>
                 /\ pc'[c] = "done"
                 /\ cres'[c].kind = "Timeout"
                 /\ cidx[c] \in DOMAIN rpcs
                 /\ rpcs[cidx[c]].sender = c
                 /\ rpcs' = rpcs
       /\ \A i \in 1..MaxIndex :
             (AppliedCommand(i) /\ i \in DOMAIN rpcs /\ pc[rpcs[i].sender] = "done") =>
                 /\ i \notin DOMAIN rpcs'
                 /\ i \in DOMAIN applied'
                 /\ state' = ref'
                 /\ cres' = cres
                 /\ chan' = chan
                 /\ loopPc' \in LoopPositions]_vars

C6_Witness ==
    \E c \in Callers :
        /\ cres[c].kind = "Timeout"
        /\ \A c2 \in Callers \ {c} : pc[c2] = "idle"
        /\ DOMAIN rpcs = {}
        /\ lastKind = "Command"
        /\ loopPc = "recv"

\* C7: every call of Server::apply that rf.start has answered returns, with
\* a response, NotLeader, Timeout or Failed, whatever the apply loop does
\* (also when it never processes the index or has panicked).
C7_SubmitReturns ==
    /\ \A c \in Callers : (pc[c] = "started") ~> (pc[c] = "done")
    /\ [](\A c \in Callers :
             pc[c] = "done" => cres[c].kind \in {"Ok", "NotLeader", "Timeout", "Failed"})

C7_Witness ==
    \E c \in Callers :
        /\ pc[c] = "done"
        /\ cres[c].kind = "Timeout"
        /\ loopPc = "panic_deserialize_command"

\* C8: a replica that installed a snapshot serialized at index i and applied
\* the records after i has the state machine (mapping and window) of a
\* replica that applied every record one by one.
C8_SnapshotEquivalence == state = ref

C8_Witness ==
    /\ lastIndex = 2
    /\ lastKind = "Command"
    /\ DOMAIN applied = {2}
    /\ state.ids = <<AsU32(IdX), AsU32(IdY)>>
    /\ state.kv = [k \in {KeyA} |-> Str1 \o Str2]

\* C12: the apply loop hands a compaction request to rf.snapshot only
\* directly after applying a Command record, never after processing a
\* Snapshot record, whatever the size of the file "state".
C12_CompactsOnlyAfterCommand ==
    (loopPc = "snapshot") => (lastKind = "Command" /\ snapReq.index \in DOMAIN applied)

(* the apply loop has gone past index i without applying a Command record
   there: a Snapshot record covered it *)
Covered(i) == i >= 1 /\ i <= lastIndex /\ i \notin DOMAIN applied

OwnsSlot(c) == cidx[c] \in DOMAIN rpcs /\ rpcs[cidx[c]].sender = c

(* the step in which the apply loop processed a Snapshot record *)
InstalledSnapshot == lastIndex' > lastIndex /\ lastKind' = "Snapshot"

\* C13 as stated: a Snapshot record replaces the state machine and leaves the
\* registry and the channels as they are, and every call waiting on an index
\* that a snapshot covered returns Timeout.
C13_CoveredCallTimesOut ==
    [][/\ InstalledSnapshot =>
             state' = ref' /\ rpcs' = rpcs /\ chan' = chan
       /\ \A c \in Callers :
             (pc[c] = "wait" /\ Covered(cidx[c]) /\ pc'[c] = "done") =>
                 cres'[c].kind = "Timeout"]_vars

\* C13 amended: a Snapshot record replaces the state machine and leaves the
\* registry, the channels and the calls as they are; a call waiting on an
\* index that a snapshot covered never returns a value: it returns Timeout,
\* or Failed when a later call registered the same index and so took its slot.
C13_SnapshotLeavesRegistry ==
    [][/\ InstalledSnapshot =>
             /\ state' = ref'
             /\ rpcs' = rpcs
             /\ chan' = chan
             /\ callVars' = callVars
       /\ \A c \in Callers :
             (pc[c] = "wait" /\ Covered(cidx[c])) =>
                 /\ chan[c].st # "sent"
                 /\ OwnsSlot(c) => chan[c].st = "pending"
                 /\ pc'[c] = "done" =>
                       cres'[c].kind = (IF OwnsSlot(c) THEN "Timeout" ELSE "Failed")]_vars

C13_Witness ==
    \E c \in Callers :
        /\ lastKind = "Snapshot"
        /\ pc[c] = "wait"
        /\ Covered(cidx[c])
        /\ OwnsSlot(c)
        /\ chan[c].st = "pending"
        /\ state.ids = <<AsU32(IdXhi)>>

(* the step in which call c registers the index rf.start gave it *)
Registers(c) == pc[c] = "started" /\ pc'[c] = "wait"

\* C14: at most one call per index has a pending handle, and it is the one
\* the registry holds; register(index, id) on an index that has a slot
\* replaces it by a fresh handle bound to id and closes the old handle; a
\* closed handle never yields a value, and a Command record whose identifier
\* is the superseded one and not the new one sends no value to anybody.
C14_RegisterSupersedes ==
    /\ [](\A c \in Callers :
             (pc[c] = "wait" /\ chan[c].st = "pending") => OwnsSlot(c))
    /\ [][/\ \A c \in Callers : Registers(c) =>
                LET i == startRes[c].index IN
                /\ rpcs'[i] = [id |-> creq[c], sender |-> c]
                /\ chan'[c].st = "pending"
                /\ \A j \in (DOMAIN rpcs) \ {i} : j \in DOMAIN rpcs' /\ rpcs'[j] = rpcs[j]
                /\ DOMAIN rpcs' = (DOMAIN rpcs) \cup {i}
                /\ \A c0 \in Callers \ {c} :
                      chan'[c0] = IF i \in DOMAIN rpcs /\ rpcs[i].sender = c0
                                     /\ chan[c0].st = "pending"
                                  THEN [st |-> "closed", val |-> EmptyStr]
                                  ELSE chan[c0]
          /\ \A c \in Callers :
                (pc[c] = "wait" /\ chan[c].st = "closed") =>
                    /\ chan'[c].st \in {"closed", "dropped"}
                    /\ pc'[c] = "done" => cres'[c].kind = "Failed"
          /\ \A i \in 1..MaxIndex :
                (AppliedCommand(i) /\ i \in DOMAIN rpcs /\ rpcs[i].id # applied'[i].id) =>
                    \A c \in Callers : chan'[c].st = "sent" => chan[c].st = "sent"]_vars

(* two calls registered index 1, the second with another identifier, and the
   Command record of index 1 carried the identifier of the first *)
C14_Witness ==
    /\ lastIndex = 1
    /\ 1 \in DOMAIN applied
    /\ 1 \notin DOMAIN rpcs
    /\ \E c1, c2 \in Callers :
          /\ pc[c1] = "wait" /\ pc[c2] = "wait"
          /\ cidx[c1] = 1 /\ cidx[c2] = 1
          /\ creq[c1] = applied[1].id
          /\ creq[c2] # applied[1].id
          /\ chan[c1].st = "closed" /\ chan[c2].st = "closed"

\* C15: a compaction request handed to rf.snapshot carries the index of the
\* record the apply loop has just processed and the serialization of the
\* state machine as a replica has it that applied exactly the records up to
\* that index, although calls of Server::apply run while the loop awaits the
\* size probe.
C15_CompactionPayload ==
    (loopPc = "snapshot") =>
        /\ snapReq.index = lastIndex
        /\ snapReq.data = serialize_kv(ref)
        /\ deserialize_kv(snapReq.data) = [ok |-> TRUE, state |-> ref]

C15_Witness ==
    /\ loopPc = "snapshot"
    /\ snapReq.index = 2
    /\ lastKind = "Command"
    /\ pc[1] = "wait"
    /\ state.kv = [k \in {KeyA} |-> Str1 \o Str2]
    /\ state.ids = <<AsU32(IdX), AsU32(IdY)>>

Panicked == loopPc \in {"panic_deserialize_command", "panic_deserialize_snapshot",
                        "panic_rf_snapshot"}

(* a step with an effect of the apply loop on the state machine, the registry
   or a channel *)
LoopEffect ==
    \/ state' # state
    \/ applied' # applied
    \/ \E c \in Callers : chan'[c].st = "sent" /\ chan[c].st # "sent"
    \/ \E i \in DOMAIN rpcs : i \notin DOMAIN rpcs'

\* C16: the apply loop takes a record only when it is done with the one
\* before, a Command record is applied at the index right after the last one
\* and no index is applied twice, so the state machine is that of a replica
\* that applied the stream up to the last index; a record that fails to
\* decode is not applied, and after it or after a failed rf.snapshot the loop
\* applies and resolves nothing any more.
C16_SequentialLoop ==
    /\ [](state = ref /\ (loopPc \in LoopPositions \/ Panicked))
    /\ [][/\ lastIndex' # lastIndex =>
                /\ loopPc = "recv"
                /\ lastIndex' > lastIndex
                /\ lastKind' = "Command" =>
                      /\ lastIndex' = lastIndex + 1
                      /\ DOMAIN applied' = (DOMAIN applied) \cup {lastIndex'}
          /\ \A i \in DOMAIN applied : i \in DOMAIN applied' /\ applied'[i] = applied[i]
          /\ LoopEffect => lastIndex' > lastIndex
          /\ Panicked =>
                loopPc' = loopPc /\ lastIndex' = lastIndex /\ lastKind' = lastKind
                /\ snapReq' = snapReq
          /\ (~Panicked /\ Panicked') =>
                state' = state /\ lastIndex' = lastIndex /\ rpcs' = rpcs /\ chan' = chan]_vars

(* the loop panicked on the record of index 2 while a call waits for it *)
C16_Witness ==
    /\ loopPc = "panic_deserialize_command"
    /\ lastIndex = 1
    /\ 1 \in DOMAIN applied
    /\ pc[1] = "wait"
    /\ cidx[1] = 2
    /\ chan[1].st = "pending"
    /\ OwnsSlot(1)

(* a step of the apply loop that processes a record *)
ProcessesRecord == loopPc = "recv" /\ lastIndex' > lastIndex

\* C17: the state machine changes only in a step of the apply loop that
\* applies a Command record or installs a Snapshot record: every step of a
\* call of Server::apply and every call of Server::term or Server::is_leader
\* leaves it as it is.
C17_OnlyLoopMutates ==
    [][/\ state' # state => (ProcessesRecord /\ callVars' = callVars /\ observed' = observed)
       /\ (callVars' # callVars \/ observed' # observed) => state' = state]_vars

C17_Witness ==
    /\ observed.term = 2
    /\ observed.leader = "true"
    /\ cres[1].kind = "Ok"
    /\ cres[1].value = Str1
    /\ state.kv = [k \in {KeyA} |-> Str1]

(* the places where a task is suspended in an await *)
Suspended == {"recv", "probe_await", "snapshot_await", "start_await", "recver_await"}

(* the places where a task is inside Mutex::lock(), and the lock it asks for *)
Asks(t) ==
    CASE tasks[t].at \in {"snapshot_lock", "apply_lock", "serialize_lock"} -> {"state"}
      [] tasks[t].at \in {"complete_lock", "register_lock"} -> {"rpcs"}
      [] OTHER -> {}

\* C18: no task holds the lock of the state machine and the lock of the
\* registry together, no task holds a lock while it is suspended in an await,
\* and a task that asks for a lock either finds it free or finds it held by a
\* task that is running towards its unlock without asking for another lock.
C18_LockDiscipline ==
    \A t \in LockTasks :
        /\ Cardinality(tasks[t].holds) <= 1
        /\ tasks[t].at \in Suspended \cup {"idle", "done"} => tasks[t].holds = {}
        /\ \A l \in Asks(t) :
              \A h \in LockTasks :
                  l \in tasks[h].holds =>
                      h # t /\ Asks(h) = {} /\ tasks[h].at \notin Suspended

(* a call asks for the registry lock while the apply loop holds it in complete *)
C18_Witness ==
    /\ tasks[LoopTask] = [at |-> "complete", holds |-> {"rpcs"}]
    /\ tasks[1].at = "register_lock"
    /\ tasks[2].at = "recver_await"

(* the step in which the apply loop applied the Command record of an index
   that has no slot in the registry *)
CompletesWithoutSlot ==
    /\ lastIndex' > lastIndex
    /\ lastIndex' \in DOMAIN applied'
    /\ lastIndex' \notin DOMAIN rpcs

(* a step of the apply loop *)
LoopStep == lastIndex' # lastIndex \/ loopPc' # loopPc \/ snapReq' # snapReq

\* C19 as stated: complete on an index without a slot changes neither the
\* registry nor a channel; a call that registers its index after the loop
\* applied its command there gets a pending slot that no step of the loop
\* removes or resolves, and the call returns Timeout.
C19_LateCallTimesOut ==
    [][/\ CompletesWithoutSlot => rpcs' = rpcs /\ chan' = chan
       /\ \A c \in Callers :
             /\ (Registers(c) /\ AfterApplied(startRes[c].index, creq[c])) =>
                   /\ c \in late'
                   /\ rpcs'[cidx'[c]] = [id |-> creq[c], sender |-> c]
                   /\ chan'[c].st = "pending"
             /\ (c \in late /\ LoopStep) =>
                   /\ cidx[c] \in DOMAIN rpcs'
                   /\ rpcs'[cidx[c]] = rpcs[cidx[c]]
                   /\ chan'[c] = chan[c]
             /\ (c \in late /\ pc'[c] = "done") => cres'[c].kind = "Timeout"]_vars

\* C19 amended: complete on an index without a slot changes neither the
\* registry nor a channel; a call that registers its index after the loop
\* applied its command there gets a pending slot that no step of the loop
\* removes or resolves; the call never receives the output: it returns
\* Timeout, or Failed when a later call registered the same index and so
\* took its slot.
C19_LateCallNeverAnswered ==
    [][/\ CompletesWithoutSlot => rpcs' = rpcs /\ chan' = chan
       /\ \A c \in Callers :
             /\ (Registers(c) /\ AfterApplied(startRes[c].index, creq[c])) =>
                   /\ c \in late'
                   /\ rpcs'[cidx'[c]] = [id |-> creq[c], sender |-> c]
                   /\ chan'[c].st = "pending"
             /\ (c \in late /\ LoopStep) =>
                   /\ cidx[c] \in DOMAIN rpcs'
                   /\ rpcs'[cidx[c]] = rpcs[cidx[c]]
                   /\ chan'[c] = chan[c]
             /\ c \in late =>
                   /\ pc[c] = "wait"
                   /\ AfterApplied(cidx[c], creq[c])
                   /\ cidx[c] \in DOMAIN rpcs
                   /\ chan[c].st = (IF OwnsSlot(c) THEN "pending" ELSE "closed")
             /\ (c \in late /\ pc'[c] = "done") =>
                   cres'[c].kind = (IF OwnsSlot(c) THEN "Timeout" ELSE "Failed")]_vars

(* call 1 waits on the slot it registered at index 1 after the loop applied
   its command there, and the loop has gone on to apply the Put of index 2 *)
C19_Witness ==
    /\ 1 \in late
    /\ OwnsSlot(1)
    /\ cidx[1] = 1
    /\ applied[1].id = creq[1]
    /\ chan[1].st = "pending"
    /\ lastIndex = 2
    /\ state.kv # KvDefault.kv

====
